---- MODULE Spec2Model ----
(***************************************************************************)
(* A model of netupvim's source resolution, conditional download and       *)
(* self-update orchestration (src/source.go, src/main.go).                 *)
(*                                                                         *)
(* Time is counted in ticks; the zero time.Time is tick 0.  Names and      *)
(* paths are sequences of tokens, so that matching a name against a        *)
(* pattern and deriving a file path from a URL are computed, not assumed.  *)
(***************************************************************************)
EXTENDS Integers, Sequences, FiniteSets, TLC

\* ------------------------------------------------------------------ bounds
MaxAssets == 2   \* longest asset list a release carries
MaxTime == 2     \* latest updatedAt tick; pivots range over 0 .. MaxTime + 1
MaxBody == 2     \* longest response body, in bytes

\* ------------------------------------------------------------------ errors
\* An error is a tuple of strings; the nil error is the empty tuple.
Nil == <<>>
errUnknownSource == <<"unknown source">>
errSourceNotFound == <<"source not found">>
errSourceNotModified == <<"source not modified">>
errGithubNoRelease == <<"absence of github release">>
errGithubNoAssets == <<"no matched assets in github release">>
errGithubIncompleteAsset == <<"incomplete github asset">>
\* errors that come from the libraries the code calls
errAPI == <<"github: request failed">>
errParse == <<"url: parse error">>
errTransport == <<"http: transport error">>
errCreate == <<"os: create failed">>
errRead == <<"body: read error">>
errWrite == <<"file: write error">>
errUnexpected(status) == <<"unexpected response: ", status>>

\* ----------------------------------------------------------- source types
releaseSource == 0
developSource == 1
canarySource == 2

toSourceType(s) ==
    CASE s = "release" -> [st |-> releaseSource, err |-> Nil]
      [] s = "develop" -> [st |-> developSource, err |-> Nil]
      [] s = "canary" -> [st |-> canarySource, err |-> Nil]
      [] OTHER -> [st |-> 0, err |-> errUnknownSource]

X86 == "X86"
AMD64 == "AMD64"

\* ------------------------------------------------------------------- URLs
\* A URL is [valid, host, path]: path is the sequence of its path segments.
URL(host, path) == [valid |-> TRUE, host |-> host, path |-> path]

\* ------------------------------------------------------ the static table
NoSource == [kind |-> "none"]
directSource(u) == [kind |-> "direct", url |-> u]
githubSource(user, project, tag) ==
    [kind |-> "github", user |-> user, project |-> project,
     namePat |-> [tag |-> tag, ext |-> ".zip"]]

sources ==
    [t \in {releaseSource, developSource, canarySource} |->
        CASE t = releaseSource ->
               [c \in {X86, AMD64} |->
                   IF c = X86
                   THEN githubSource("koron", "vim-kaoriya", "-win32-")
                   ELSE githubSource("koron", "vim-kaoriya", "-win64-")]
          [] t = developSource ->
               [c \in {X86, AMD64} |->
                   IF c = X86
                   THEN directSource(URL("files.kaoriya.net",
                            <<"vim", "vim74-kaoriya-win32.zip">>))
                   ELSE directSource(URL("files.kaoriya.net",
                            <<"vim", "vim74-kaoriya-win64.zip">>))]
          [] OTHER ->
               [c \in {X86, AMD64} |->
                   IF c = X86
                   THEN directSource(URL("files.kaoriya.net",
                            <<"vim", "vim74-kaoriya-win32-test.zip">>))
                   ELSE directSource(URL("files.kaoriya.net",
                            <<"vim", "vim74-kaoriya-win64-test.zip">>))]]

\* The package-level variable sources while the program runs: a map of
\* maps of pointers to sources, open to every assignment in the package.
VARIABLE registry

\* A lookup that trusts the second map read: a missing cpu gives the zero source.
determineSource_NoCpuCheck(t, c) ==
    IF t \notin DOMAIN registry
    THEN [s |-> NoSource, err |-> errSourceNotFound]
    ELSE IF c \notin DOMAIN registry[t]
         THEN [s |-> NoSource, err |-> Nil]
         ELSE [s |-> registry[t][c], err |-> Nil]

determineSource(t, c) ==
    IF t \notin DOMAIN registry
    THEN [s |-> NoSource, err |-> errSourceNotFound]
    ELSE IF c \notin DOMAIN registry[t]
         THEN [s |-> NoSource, err |-> errSourceNotFound]
         ELSE [s |-> registry[t][c], err |-> Nil]

\* ------------------------------------------------- releases and assets
\* Asset names, and how each splits into the tokens a pattern looks at.
AssetNames == {"vim-win32-x.zip", "vim-win64-x.zip", "vim-win32-x.zip.asc"}

Tokens(name) ==
    CASE name = "vim-win32-x.zip" -> <<"vim", "-win32-", "x", ".zip">>
      [] name = "vim-win64-x.zip" -> <<"vim", "-win64-", "x", ".zip">>
      [] name = "vim-win32-x.zip.asc" -> <<"vim", "-win32-", "x", ".zip", ".asc">>
      [] OTHER -> <<name>>

\* regexp `<tag>.*\.zip$`: the tag occurs, and the name ends in .zip after it.
MatchString(pat, name) ==
    LET ts == Tokens(name)
    IN  \E i \in 1..Len(ts) :
            /\ ts[i] = pat.tag
            /\ i < Len(ts)
            /\ ts[Len(ts)] = pat.ext

AssetStates == {"uploaded", "new"}
UpdatedAts == 1..MaxTime
Pivots == 0..(MaxTime + 1)

\* The download URL the API gives the asset listed i-th under a name.
AssetURL(i, name) ==
    URL("github.com",
        <<"koron", "vim-kaoriya", "releases", "download", ToString(i), name>>)

NoAsset == [Name |-> "", State |-> "", UpdatedAt |-> 0,
            DownloadURL |-> [valid |-> FALSE, host |-> "", path |-> <<>>]]

AssetFields == [Name : AssetNames, State : AssetStates, UpdatedAt : UpdatedAts]

AssetLists ==
    UNION {[1..n -> AssetFields] : n \in 0..MaxAssets}

WithURLs(fs) ==
    [i \in 1..Len(fs) |->
        [Name |-> fs[i].Name, State |-> fs[i].State,
         UpdatedAt |-> fs[i].UpdatedAt,
         DownloadURL |-> AssetURL(i, fs[i].Name)]]

Releases ==
    {[Draft |-> d, PreRelease |-> p, Assets |-> WithURLs(fs)] :
        d \in BOOLEAN, p \in BOOLEAN, fs \in AssetLists}

NoRelease == [Draft |-> FALSE, PreRelease |-> FALSE, Assets |-> <<>>]

\* The scan without its break: the last matching asset wins.
RECURSIVE firstMatch_NoBreak(_, _, _)
firstMatch_NoBreak(pat, assets, i) ==
    IF i > Len(assets) THEN 0
    ELSE LET later == firstMatch_NoBreak(pat, assets, i + 1)
         IN  IF later # 0 THEN later
             ELSE IF MatchString(pat, assets[i].Name) THEN i ELSE 0

\* for _, a := range r.Assets { if match { t = &a; break } }
RECURSIVE firstMatch(_, _, _)
firstMatch(pat, assets, i) ==
    IF i > Len(assets) THEN 0
    ELSE IF MatchString(pat, assets[i].Name) THEN i
         ELSE firstMatch(pat, assets, i + 1)

\* fetchAsset that passes over matching assets that are not uploaded yet and
\* takes the first uploaded one
fetchAsset_SkipIncomplete(gs, r, err) ==
    IF err # Nil THEN [a |-> NoAsset, err |-> err]
    ELSE IF r.Draft \/ r.PreRelease
    THEN [a |-> NoAsset, err |-> errGithubNoRelease]
    ELSE LET t == firstMatch(gs.namePat, r.Assets, 1)
             up == {i \in 1..Len(r.Assets) :
                       /\ MatchString(gs.namePat, r.Assets[i].Name)
                       /\ r.Assets[i].State = "uploaded"}
         IN  IF t = 0 THEN [a |-> NoAsset, err |-> errGithubNoAssets]
             ELSE IF up = {}
             THEN [a |-> NoAsset, err |-> errGithubIncompleteAsset]
             ELSE [a |-> r.Assets[CHOOSE i \in up : \A k \in up : i <= k],
                   err |-> Nil]

\* fetchAsset that rejects drafts only.
fetchAsset_DraftOnly(gs, r, err) ==
    IF err # Nil THEN [a |-> NoAsset, err |-> err]
    ELSE IF r.Draft
    THEN [a |-> NoAsset, err |-> errGithubNoRelease]
    ELSE LET t == firstMatch(gs.namePat, r.Assets, 1)
         IN  IF t = 0 THEN [a |-> NoAsset, err |-> errGithubNoAssets]
             ELSE IF r.Assets[t].State # "uploaded"
             THEN [a |-> NoAsset, err |-> errGithubIncompleteAsset]
             ELSE [a |-> r.Assets[t], err |-> Nil]

\* fetchAsset after github.Latest has returned (r, err).
fetchAsset(gs, r, err) ==
    IF err # Nil THEN [a |-> NoAsset, err |-> err]
    ELSE IF r.Draft \/ r.PreRelease
    THEN [a |-> NoAsset, err |-> errGithubNoRelease]
    ELSE LET t == firstMatch(gs.namePat, r.Assets, 1)
         IN  IF t = 0 THEN [a |-> NoAsset, err |-> errGithubNoAssets]
             ELSE IF r.Assets[t].State # "uploaded"
             THEN [a |-> NoAsset, err |-> errGithubIncompleteAsset]
             ELSE [a |-> r.Assets[t], err |-> Nil]

\* ------------------------------------------------- conditional download
TicksPerSecond == 2

IsZero(t) == t = 0
\* After that also holds of equal instants
After_NotBefore(t, u) == t >= u
After_Before(t, u) == t < u
After(t, u) == t > u

\* pivot.UTC().Format(http.TimeFormat): the instant, cut to whole seconds.
TimeFormat(t) == [gmt |-> TRUE, sec |-> t \div TicksPerSecond]

NoHeader == [gmt |-> FALSE, sec |-> 0]

\* filepath.Base of a URL path: its last segment, "." for an empty path.
Base(path) == IF Len(path) = 0 THEN "." ELSE path[Len(path)]

\* filepath.Join(dir, name); a path is the sequence of its segments
Join(dir, name) == Append(dir, name)

downloadFilepath(inURL, outdir) ==
    IF ~inURL.valid THEN [path |-> <<>>, err |-> errParse]
    ELSE [path |-> Join(outdir, Base(inURL.path)), err |-> Nil]

\* downloadAsFile that sets the header without asking whether the pivot is
\* the zero time
Request_AlwaysHeader(inURL, pivot) ==
    [method |-> "GET", url |-> inURL, ifModifiedSince |-> TimeFormat(pivot)]

\* The request downloadAsFile builds before it sends it.
Request(inURL, pivot) ==
    [method |-> "GET", url |-> inURL,
     ifModifiedSince |-> IF ~IsZero(pivot) THEN TimeFormat(pivot) ELSE NoHeader]

StatusOK == 200
StatusNotModified == 304
StatusNotFound == 404
StatusCodes == {StatusOK, StatusNotModified, StatusNotFound}

StatusText(code) ==
    CASE code = StatusOK -> "200 OK"
      [] code = StatusNotModified -> "304 Not Modified"
      [] OTHER -> "404 Not Found"

NoResponse == [err |-> Nil, StatusCode |-> 0, Status |-> "", ContentLength |-> 0]

\* What http.DefaultClient.Do can hand back: a transport error, or a response
\* with a status and a content length (-1 when the server states none).
Responses ==
    {[err |-> errTransport, StatusCode |-> 0, Status |-> "", ContentLength |-> 0]}
    \cup {[err |-> Nil, StatusCode |-> c, Status |-> StatusText(c),
            ContentLength |-> 0] : c \in StatusCodes \ {StatusOK}}
    \cup {[err |-> Nil, StatusCode |-> StatusOK, Status |-> StatusText(StatusOK),
            ContentLength |-> m] : m \in (-1)..MaxBody}

\* What one Read of the response body gives io.Copy.
NoRead == [kind |-> "none", k |-> 0]
ReadEOF == [kind |-> "eof", k |-> 0]
ReadErr == [kind |-> "err", k |-> 0]
ReadData(k) == [kind |-> "data", k |-> k]

\* The file system: the length of the file at each path, Absent if none.
Absent == -1
OldLen == 1
OutDir == <<"netupvim">>

DirectURLs ==
    {sources[t][c].url : t \in {developSource, canarySource}, c \in {X86, AMD64}}
AssetURLs == {AssetURL(i, n) : i \in 1..MaxAssets, n \in AssetNames}
DestPaths == {downloadFilepath(u, OutDir).path : u \in DirectURLs \cup AssetURLs}

\* ------------------------------------------------------------ the state
VARIABLES
    st,        \* determineSource's st argument
    cpuArg,    \* determineSource's cpu argument
    pivot,     \* download's pivot argument, 0 for the zero time
    pf,        \* whether download's progress callback is non-nil
    src,       \* the source determineSource returned
    fpc,       \* where the fetch stands
    release,   \* fetchAsset's r: the release github.Latest returned; gone once
               \* githubSource.download has moved past fetchAsset's result
    asset,     \* the asset fetchAsset returned
    outPath,   \* the path downloadFilepath derived
    gets,      \* the requests sent so far
    resp,      \* the response http.DefaultClient.Do returned
    rx,        \* the result of the body Read io.Copy is handling
    files,     \* the file system under the output directory
    pw,        \* progressWriter's n and m
    progress,  \* the progress callback's invocations, <<curr, max>> each
    ret        \* what the fetch returned: [path, err]

VARIABLES
    round,     \* 0: one fetch; 1, 2: the first and the second of two fetches
               \* of one source with one pivot
    tape,      \* round 1: what the API, the server and the file system
               \* answered, in order
    tpos,      \* round 2: the answer of the tape that is due next
    ret1       \* what the first of two fetches returned

fetchVars == <<st, cpuArg, pivot, pf, src, fpc, release, asset, outPath, gets,
               resp, rx, files, pw, progress, ret, registry, round, tape, tpos,
               ret1>>

VARIABLES
    pc,          \* where run stands
    targetDir,   \* main.go's globals, as setup leaves them
    sourceName,
    cpu,
    restore,
    selfUpdate,
    DownloadTimeout,  \* netup.DownloadTimeout
    exe,         \* the directories that hold a netupvim.exe
    updates,     \* the netup.Update calls made so far, their arguments
    upc,         \* where the netup.Update call in flight stands
    usrc,        \* the source that call resolved
    fetched,     \* what that call's fetch returned
    fetches,     \* every fetch result so far, with the call it belongs to
    installs,    \* every installer call so far, with the call it belongs to
    returns,     \* what each finished netup.Update call returned
    errPrimary,  \* run's err: what the primary netup.Update returned
    errSelf,     \* the inner err: what the second netup.Update returned
    logs,        \* netup.LogInfo's lines
    runErr       \* what run returned

runVars == <<pc, targetDir, sourceName, cpu, restore, selfUpdate, DownloadTimeout,
             exe, updates, upc, usrc, fetched, fetches, installs, returns,
             errPrimary, errSelf, logs, runErr>>

vars == <<fetchVars, runVars>>

SourceTypes == 0..3
CPUs == {X86, AMD64, "ARM"}

NoRet == [path |-> <<>>, err |-> Nil]

InitFetchLocals ==
    /\ src = NoSource
    /\ fpc = "resolve"
    /\ release = NoRelease
    /\ asset = NoAsset
    /\ outPath = <<>>
    /\ gets = <<>>
    /\ resp = NoResponse
    /\ rx = NoRead
    /\ pw = [n |-> 0, m |-> 0]
    /\ progress = <<>>
    /\ ret = NoRet
    /\ registry = sources
    /\ tape = <<>>
    /\ tpos = 1
    /\ ret1 = NoRet

\* main.go's globals before setup, and nothing called yet
InitRunLocals ==
    /\ pc = "setup"
    /\ targetDir = <<".">>
    /\ sourceName = "release"
    /\ cpu = ""
    /\ restore = FALSE
    /\ selfUpdate = TRUE
    /\ DownloadTimeout = 0
    /\ updates = <<>>
    /\ upc = "idle"
    /\ usrc = NoSource
    /\ fetched = NoRet
    /\ fetches = <<>>
    /\ installs = <<>>
    /\ returns = <<>>
    /\ errPrimary = Nil
    /\ errSelf = Nil
    /\ logs = <<>>
    /\ runErr = Nil

\* One fetch: determineSource on (st, cpuArg), then download on what it gave.
Init ==
    /\ InitRunLocals
    /\ exe = {}
    /\ st \in SourceTypes
    /\ cpuArg \in CPUs
    /\ pivot \in Pivots
    /\ pf \in BOOLEAN
    /\ files \in {[p \in DestPaths |-> Absent], [p \in DestPaths |-> OldLen]}
    /\ round = 0
    /\ InitFetchLocals

\* The answers of the given kind the world outside the program can give
\* now.  A fetch on its own, and the first of two fetches, can get any
\* answer of S; the second of two fetches gets the answer the first one got
\* at this place, and none if the first one got an answer of another kind.
Answers(kind, S) ==
    IF round = 2
    THEN IF tpos <= Len(tape) /\ tape[tpos].kind = kind
         THEN {tape[tpos].v}
         ELSE {}
    ELSE S

\* The answer v was given: the first of two fetches notes it, the second of
\* two fetches moves on to the next answer noted.
Answered(kind, v) ==
    CASE round = 0 -> UNCHANGED <<tape, tpos>>
      [] round = 1 ->
            /\ tape' = Append(tape, [kind |-> kind, v |-> v])
            /\ UNCHANGED tpos
      [] OTHER ->
            /\ tpos' = tpos + 1
            /\ UNCHANGED tape

\* return path, err
Return(path, err) ==
    /\ fpc' = "done"
    /\ ret' = [path |-> path, err |-> err]

\* download that hands back the path it derived whatever downloadAsFile said
downloadReturn_KeepPath(path, e) == Return(path, e)

\* download's two returns after downloadAsFile: "", err or path, nil
downloadReturn(path, e) ==
    IF e # Nil THEN Return(<<>>, e) ELSE Return(path, Nil)

\* determineSource(st, cpu), and the caller's check of its error
DetermineSource ==
    /\ fpc = "resolve"
    /\ LET r == determineSource(st, cpuArg)
       IN  IF r.err # Nil
           THEN /\ Return(<<>>, r.err)
                /\ UNCHANGED src
           ELSE /\ src' = r.s
                /\ fpc' = "download"
                /\ UNCHANGED ret
    /\ UNCHANGED <<st, cpuArg, pivot, pf, release, asset, outPath, gets, resp, rx,
                   files, pw, progress>>
    /\ UNCHANGED <<registry, round, tape, tpos, ret1>>
    /\ UNCHANGED runVars

\* download(inURL, outdir, pivot, f) up to the moment the GET is on the wire:
\* downloadFilepath, then downloadAsFile's request
download(inURL) ==
    LET fp == downloadFilepath(inURL, OutDir)
    IN  IF fp.err # Nil
        THEN /\ Return(<<>>, fp.err)
             /\ UNCHANGED <<outPath, gets>>
        ELSE /\ outPath' = fp.path
             /\ gets' = Append(gets, Request(inURL, pivot))
             /\ fpc' = "await"
             /\ UNCHANGED ret

\* (*directSource).download
DirectDownload ==
    /\ fpc = "download"
    /\ src.kind = "direct"
    /\ download(src.url)
    /\ UNCHANGED <<st, cpuArg, pivot, pf, src, release, asset, resp, rx, files, pw,
                   progress>>
    /\ UNCHANGED <<registry, round, tape, tpos, ret1>>
    /\ UNCHANGED runVars

\* The releases github.Latest can answer with.  Where two fetches are
\* compared the release has one asset less than where one fetch is looked at.
LatestReleases ==
    IF round = 0 THEN Releases
    ELSE {r \in Releases : Len(r.Assets) < MaxAssets}

\* (*githubSource).download, its call of fetchAsset: github.Latest answers
\* with a release or an error, and fetchAsset picks the asset
GithubFetchAsset ==
    /\ fpc = "download"
    /\ src.kind = "github"
    /\ \E a \in Answers("api", {<<r, Nil>> : r \in LatestReleases}
                               \cup {<<NoRelease, errAPI>>}) :
          /\ Answered("api", a)
          /\ LET r == a[1]
                 e == a[2]
                 fa == fetchAsset(src, r, e)
             IN  /\ release' = r
                 /\ IF fa.err # Nil
                    THEN /\ Return(<<>>, fa.err)
                         /\ UNCHANGED asset
                    ELSE /\ asset' = fa.a
                         /\ fpc' = "asset"
                         /\ UNCHANGED ret
    /\ UNCHANGED <<st, cpuArg, pivot, pf, src, outPath, gets, resp, rx, files, pw,
                   progress>>
    /\ UNCHANGED <<registry, round, ret1>>
    /\ UNCHANGED runVars

\* (*githubSource).download that keeps the asset's URL for the next call: it
\* puts a direct source of that URL in the table in its own place
GithubDownload_CacheURL ==
    /\ fpc = "asset"
    /\ release' = NoRelease
    /\ IF ~IsZero(pivot) /\ After(pivot, asset.UpdatedAt)
       THEN /\ Return(<<>>, errSourceNotModified)
            /\ UNCHANGED <<outPath, gets, registry>>
       ELSE /\ download(asset.DownloadURL)
            /\ registry' = [registry EXCEPT
                               ![st][cpuArg] = directSource(asset.DownloadURL)]
    /\ UNCHANGED <<st, cpuArg, pivot, pf, src, asset, resp, rx, files, pw, progress>>
    /\ UNCHANGED <<round, tape, tpos, ret1>>
    /\ UNCHANGED runVars

\* (*githubSource).download after fetchAsset: the pivot check, then download
GithubDownload ==
    /\ fpc = "asset"
    /\ release' = NoRelease
    /\ IF ~IsZero(pivot) /\ After(pivot, asset.UpdatedAt)
       THEN /\ Return(<<>>, errSourceNotModified)
            /\ UNCHANGED <<outPath, gets>>
       ELSE download(asset.DownloadURL)
    /\ UNCHANGED <<st, cpuArg, pivot, pf, src, asset, resp, rx, files, pw, progress>>
    /\ UNCHANGED <<registry, round, tape, tpos, ret1>>
    /\ UNCHANGED runVars

\* The server (or the network) answers the request: http.DefaultClient.Do
\* returns.  Nothing in downloadAsFile bounds the wait for it: the client is
\* http.DefaultClient, and DownloadTimeout is not read here.
ServerRespond ==
    /\ fpc = "await"
    /\ \E a \in Answers("resp", Responses) :
          /\ resp' = a
          /\ Answered("resp", a)
    /\ fpc' = "response"
    /\ UNCHANGED <<st, cpuArg, pivot, pf, src, release, asset, outPath, gets, rx,
                   files, pw, progress, ret>>
    /\ UNCHANGED <<registry, round, ret1>>
    /\ UNCHANGED runVars

\* saveBody up to io.Copy: os.Create, then the progressWriter
saveBody ==
    \E created \in Answers("create", BOOLEAN) :
        /\ Answered("create", created)
        /\ IF ~created
           THEN /\ downloadReturn(outPath, errCreate)
                /\ UNCHANGED <<files, pw>>
           ELSE /\ files' = [files EXCEPT ![outPath] = 0]
                /\ pw' = [n |-> 0, m |-> resp.ContentLength]
                /\ fpc' = "copy"
                /\ UNCHANGED ret

\* downloadAsFile that opens the destination file as soon as Do has returned
\* without error, before it looks at the status
HandleResponse_CreateFirst ==
    /\ fpc = "response"
    /\ IF resp.err # Nil
       THEN /\ downloadReturn(outPath, resp.err)
            /\ UNCHANGED <<files, pw, tape, tpos>>
       ELSE \E created \in Answers("create", BOOLEAN) :
              /\ Answered("create", created)
              /\ IF ~created
                 THEN /\ downloadReturn(outPath, errCreate)
                      /\ UNCHANGED <<files, pw>>
                 ELSE /\ files' = [files EXCEPT ![outPath] = 0]
                      /\ CASE resp.StatusCode = StatusOK ->
                                /\ pw' = [n |-> 0, m |-> resp.ContentLength]
                                /\ fpc' = "copy"
                                /\ UNCHANGED ret
                           [] resp.StatusCode = StatusNotModified ->
                                /\ downloadReturn(outPath, errSourceNotModified)
                                /\ UNCHANGED pw
                           [] OTHER ->
                                /\ downloadReturn(outPath,
                                                  errUnexpected(resp.Status))
                                /\ UNCHANGED pw
    /\ UNCHANGED <<st, cpuArg, pivot, pf, src, release, asset, outPath, gets, resp,
                   rx, progress>>
    /\ UNCHANGED <<registry, round, ret1>>
    /\ UNCHANGED runVars

\* downloadAsFile after Do returned: the error check and the status switch;
\* download turns any error into an empty path
HandleResponse ==
    /\ fpc = "response"
    /\ IF resp.err # Nil
       THEN /\ downloadReturn(outPath, resp.err)
            /\ UNCHANGED <<files, pw, tape, tpos>>
       ELSE CASE resp.StatusCode = StatusOK -> saveBody
              [] resp.StatusCode = StatusNotModified ->
                    /\ downloadReturn(outPath, errSourceNotModified)
                    /\ UNCHANGED <<files, pw, tape, tpos>>
              [] OTHER ->
                    /\ downloadReturn(outPath, errUnexpected(resp.Status))
                    /\ UNCHANGED <<files, pw, tape, tpos>>
    /\ UNCHANGED <<st, cpuArg, pivot, pf, src, release, asset, outPath, gets, resp,
                   rx, progress>>
    /\ UNCHANGED <<registry, round, ret1>>
    /\ UNCHANGED runVars

\* How many body bytes the server may still send: up to the content length
\* it stated, or up to MaxBody when it stated none.
BodyLimit == IF pw.m >= 0 THEN pw.m ELSE MaxBody

\* The body's next Read returns: some bytes, the end of the body, or an
\* error.  Nothing in saveBody bounds the wait for it.
BodyArrive ==
    /\ fpc = "copy"
    /\ rx = NoRead
    /\ \E a \in Answers("read", {ReadData(k) : k \in 1..(BodyLimit - pw.n)}
               \cup {ReadEOF : z \in {0} \ {IF pw.m >= 0 /\ pw.n < pw.m THEN 0 ELSE 1}}
               \cup {ReadErr}) :
          /\ rx' = a
          /\ Answered("read", a)
    /\ UNCHANGED <<st, cpuArg, pivot, pf, src, fpc, release, asset, outPath, gets,
                   resp, files, pw, progress, ret>>
    /\ UNCHANGED <<registry, round, ret1>>
    /\ UNCHANGED runVars

\* a progressWriter that counts the bytes it was handed, not the bytes the
\* file took
Write_CountRequested(k, n) ==
    /\ files' = [files EXCEPT ![outPath] = @ + n]
    /\ pw' = [pw EXCEPT !.n = @ + k]
    /\ progress' = IF pf THEN Append(progress, <<pw.n + k, pw.m>>) ELSE progress

\* (*progressWriter).Write of k bytes of which the file takes n
Write(k, n) ==
    /\ files' = [files EXCEPT ![outPath] = @ + n]
    /\ pw' = [pw EXCEPT !.n = @ + n]
    /\ progress' = IF pf THEN Append(progress, <<pw.n + n, pw.m>>) ELSE progress

\* saveBody that removes the destination file when io.Copy fails
CopyStep_RemoveOnError ==
    /\ fpc = "copy"
    /\ rx # NoRead
    /\ rx' = NoRead
    /\ CASE rx.kind = "data" ->
              \E n \in Answers("write", 0..rx.k) :
                  /\ Answered("write", n)
                  /\ IF n < rx.k
                     THEN /\ files' = [files EXCEPT ![outPath] = Absent]
                          /\ pw' = [pw EXCEPT !.n = @ + n]
                          /\ progress' = IF pf
                                         THEN Append(progress, <<pw.n + n, pw.m>>)
                                         ELSE progress
                          /\ downloadReturn(outPath, errWrite)
                     ELSE /\ Write(rx.k, n)
                          /\ UNCHANGED <<fpc, ret>>
         [] rx.kind = "eof" ->
              /\ downloadReturn(outPath, Nil)
              /\ UNCHANGED <<files, pw, progress, tape, tpos>>
         [] OTHER ->
              /\ files' = [files EXCEPT ![outPath] = Absent]
              /\ downloadReturn(outPath, errRead)
              /\ UNCHANGED <<pw, progress, tape, tpos>>
    /\ UNCHANGED <<st, cpuArg, pivot, pf, src, release, asset, outPath, gets, resp>>
    /\ UNCHANGED <<registry, round, ret1>>
    /\ UNCHANGED runVars

\* One round of io.Copy in saveBody, and the returns that follow its end
CopyStep ==
    /\ fpc = "copy"
    /\ rx # NoRead
    /\ rx' = NoRead
    /\ CASE rx.kind = "data" ->
              \E n \in Answers("write", 0..rx.k) :
                  /\ Write(rx.k, n)
                  /\ Answered("write", n)
                  /\ IF n < rx.k
                     THEN downloadReturn(outPath, errWrite)
                     ELSE UNCHANGED <<fpc, ret>>
         [] rx.kind = "eof" ->
              /\ downloadReturn(outPath, Nil)
              /\ UNCHANGED <<files, pw, progress, tape, tpos>>
         [] OTHER ->
              /\ downloadReturn(outPath, errRead)
              /\ UNCHANGED <<files, pw, progress, tape, tpos>>
    /\ UNCHANGED <<st, cpuArg, pivot, pf, src, release, asset, outPath, gets, resp>>
    /\ UNCHANGED <<registry, round, ret1>>
    /\ UNCHANGED runVars

Next ==
    \/ DetermineSource
    \/ DirectDownload
    \/ GithubFetchAsset
    \/ GithubDownload
    \/ ServerRespond
    \/ HandleResponse
    \/ BodyArrive
    \/ CopyStep

Spec == Init /\ [][Next]_vars

\* The program's own steps go on whenever they can: a sequential program that
\* is not blocked takes its next step.  The server's steps (ServerRespond,
\* BodyArrive) are owed to nobody.
Fairness ==
    /\ WF_vars(DetermineSource)
    /\ WF_vars(DirectDownload)
    /\ WF_vars(GithubFetchAsset)
    /\ WF_vars(GithubDownload)
    /\ WF_vars(HandleResponse)
    /\ WF_vars(CopyStep)

FairSpec == Init /\ [][Next]_vars /\ Fairness

\* ------------------------------------------------ two fetches of one source
\* The caller calls the source's download a second time, with the pivot, the
\* directory and the callback of the first call; the world will answer as it
\* did the first time.
FetchAgain ==
    /\ round = 1
    /\ fpc = "done"
    /\ round' = 2
    /\ ret1' = ret
    /\ src' = NoSource
    /\ fpc' = "resolve"
    /\ release' = NoRelease
    /\ asset' = NoAsset
    /\ outPath' = <<>>
    /\ gets' = <<>>
    /\ resp' = NoResponse
    /\ rx' = NoRead
    /\ pw' = [n |-> 0, m |-> 0]
    /\ progress' = <<>>
    /\ ret' = NoRet
    /\ UNCHANGED <<st, cpuArg, pivot, pf, files, registry, tape, tpos>>
    /\ UNCHANGED runVars

InitTwice ==
    /\ InitRunLocals
    /\ exe = {}
    /\ st \in SourceTypes
    /\ cpuArg \in CPUs
    /\ pivot \in Pivots
    /\ pf = TRUE
    /\ files = [p \in DestPaths |-> Absent]
    /\ round = 1
    /\ InitFetchLocals

NextTwice ==
    \/ DetermineSource
    \/ DirectDownload
    \/ GithubFetchAsset
    \/ GithubDownload
    \/ ServerRespond
    \/ HandleResponse
    \/ BodyArrive
    \/ CopyStep
    \/ FetchAgain

SpecTwice == InitTwice /\ [][NextTwice]_vars

\* ------------------------------------------------------ the orchestrator
errConfig == <<"netupvim.ini: load failed">>
errInvalidSource(name) == <<"invalid source: ", name>>
errUnsupportedArchitecture == <<"unsupported architecture">>
errInstall == <<"install failed">>

TargetDirs == {<<".">>, <<"vim">>}
SourceNames == {"release", "develop", "canary", "nightly"}
CPUNames == {"", "X86", "AMD64", "MIPS"}
Timeouts == {30, 60}

\* The package set: one descriptor per channel, and the updater's own.
vimSet ==
    [n \in {"release", "develop", "canary"} |->
        [name |-> "vim", st |-> toSourceType(n).st]]
netupPack == [name |-> "netupvim", st |-> releaseSource]

netupSource ==
    directSource(URL("files.kaoriya.net", <<"vim", "netupvim.zip">>))

\* The architecture an Arch names: its Name if one is given, else the probe's
\* answer; "" when there is no mapping for it.
ArchOf(arch, probed) ==
    LET n == IF arch.Name = "" THEN probed ELSE arch.Name
    IN  IF n \in {X86, AMD64} THEN n ELSE ""

\* The source of a package for an architecture.
packSource(pack, c) ==
    IF pack.name = "netupvim"
    THEN IF c = X86 THEN [s |-> netupSource, err |-> Nil]
         ELSE [s |-> NoSource, err |-> errSourceNotFound]
    ELSE determineSource(pack.st, c)

\* The results a source's download can hand to netup.Update.
FetchErrors == {errSourceNotModified, errGithubNoRelease, errTransport}
FetchPaths(s, d) ==
    IF s.kind = "direct" THEN {downloadFilepath(s.url, d).path}
    ELSE {downloadFilepath(AssetURL(1, n), d).path :
             n \in {m \in AssetNames : MatchString(s.namePat, m)}}
FetchOutcomes(s, d) ==
    {[path |-> p, err |-> Nil] : p \in FetchPaths(s, d)}
    \cup {[path |-> <<>>, err |-> e] : e \in FetchErrors}

InitRun ==
    /\ InitRunLocals
    /\ exe \in SUBSET {Join(d, "netupvim.exe") : d \in TargetDirs}
    /\ st = releaseSource
    /\ cpuArg = X86
    /\ pivot = 0
    /\ pf = TRUE
    /\ files = [p \in DestPaths |-> Absent]
    /\ round = 0
    /\ InitFetchLocals

\* return err from run
RunReturn(e) ==
    /\ pc' = "done"
    /\ runErr' = e

\* setup: loadConfig, the flags, the globals and netup's settings
Setup ==
    /\ pc = "setup"
    /\ \E loaded \in BOOLEAN, helpOpt \in BOOLEAN, versionOpt \in BOOLEAN :
          IF ~loaded
          THEN /\ RunReturn(errConfig)
               /\ UNCHANGED <<targetDir, sourceName, cpu, restore, selfUpdate,
                              DownloadTimeout>>
          ELSE IF helpOpt \/ versionOpt
          THEN /\ pc' = "exit"
               /\ UNCHANGED <<targetDir, sourceName, cpu, restore, selfUpdate,
                              DownloadTimeout, runErr>>
          ELSE /\ targetDir' \in TargetDirs
               /\ sourceName' \in SourceNames
               /\ restore' \in BOOLEAN
               /\ cpu' \in CPUNames
               /\ selfUpdate' \in BOOLEAN
               /\ DownloadTimeout' \in Timeouts
               /\ pc' = "update"
               /\ UNCHANGED runErr
    /\ UNCHANGED <<exe, updates, upc, usrc, fetched, fetches, installs, returns,
                   errPrimary, errSelf, logs>>
    /\ UNCHANGED fetchVars

\* netup.Update(targetDir, workDir, pack, arch, restore) is called
Update(pack, arch) ==
    /\ updates' = Append(updates,
          [targetDir |-> targetDir, workDir |-> Join(targetDir, "netupvim"),
           pack |-> pack, arch |-> arch, restore |-> restore])
    /\ upc' = "resolve"

\* run that starts the primary netup.Update and goes on without waiting for
\* its return
UpdateVim_NoWait ==
    /\ pc = "update"
    /\ IF sourceName \notin DOMAIN vimSet
       THEN /\ RunReturn(errInvalidSource(sourceName))
            /\ UNCHANGED <<updates, upc>>
       ELSE /\ Update(vimSet[sourceName], [Name |-> cpu, Hint |-> "vim.exe"])
            /\ pc' = "selfupdate"
            /\ UNCHANGED runErr
    /\ UNCHANGED <<targetDir, sourceName, cpu, restore, selfUpdate, DownloadTimeout,
                   exe, usrc, fetched, fetches, installs, returns, errPrimary,
                   errSelf, logs>>
    /\ UNCHANGED fetchVars

\* run that takes the release package when the source name is not in vimSet
UpdateVim_FallbackRelease ==
    /\ pc = "update"
    /\ Update(IF sourceName \in DOMAIN vimSet THEN vimSet[sourceName]
              ELSE vimSet["release"],
              [Name |-> cpu, Hint |-> "vim.exe"])
    /\ pc' = "primary"
    /\ UNCHANGED runErr
    /\ UNCHANGED <<targetDir, sourceName, cpu, restore, selfUpdate, DownloadTimeout,
                   exe, usrc, fetched, fetches, installs, returns, errPrimary,
                   errSelf, logs>>
    /\ UNCHANGED fetchVars

\* run from workDir to the primary netup.Update call
UpdateVim ==
    /\ pc = "update"
    /\ IF sourceName \notin DOMAIN vimSet
       THEN /\ RunReturn(errInvalidSource(sourceName))
            /\ UNCHANGED <<updates, upc>>
       ELSE /\ Update(vimSet[sourceName], [Name |-> cpu, Hint |-> "vim.exe"])
            /\ pc' = "primary"
            /\ UNCHANGED runErr
    /\ UNCHANGED <<targetDir, sourceName, cpu, restore, selfUpdate, DownloadTimeout,
                   exe, usrc, fetched, fetches, installs, returns, errPrimary,
                   errSelf, logs>>
    /\ UNCHANGED fetchVars

\* netup.Update returns e to run
UpdateReturn(e) ==
    /\ returns' = Append(returns, [call |-> Len(updates), err |-> e])
    /\ upc' = "returned"

\* netup.Update, steps 1 and 2: the architecture, then the source
UpdateResolve ==
    /\ upc = "resolve"
    /\ \E probed \in {X86, AMD64, "MIPS"} :
          LET call == updates[Len(updates)]
              c == ArchOf(call.arch, probed)
              r == packSource(call.pack, c)
          IN  IF c = ""
              THEN /\ UpdateReturn(errUnsupportedArchitecture)
                   /\ UNCHANGED usrc
              ELSE IF r.err # Nil
              THEN /\ UpdateReturn(r.err)
                   /\ UNCHANGED usrc
              ELSE /\ usrc' = r.s
                   /\ upc' = "fetch"
                   /\ UNCHANGED returns
    /\ UNCHANGED <<pc, targetDir, sourceName, cpu, restore, selfUpdate,
                   DownloadTimeout, exe, updates, fetched, fetches, installs,
                   errPrimary, errSelf, logs, runErr>>
    /\ UNCHANGED fetchVars

\* netup.Update that installs whatever the fetch left, whatever it signalled
UpdateFetch_InstallAnyway ==
    /\ upc = "fetch"
    /\ \E r \in FetchOutcomes(usrc, updates[Len(updates)].workDir) :
          /\ fetched' = r
          /\ fetches' = Append(fetches, [call |-> Len(updates), path |-> r.path,
                                         err |-> r.err])
          /\ upc' = "install"
          /\ UNCHANGED returns
    /\ UNCHANGED <<pc, targetDir, sourceName, cpu, restore, selfUpdate,
                   DownloadTimeout, exe, updates, usrc, installs, errPrimary,
                   errSelf, logs, runErr>>
    /\ UNCHANGED fetchVars

\* netup.Update, steps 3 and 4: the source's fetch, and what its result means
UpdateFetch ==
    /\ upc = "fetch"
    /\ \E r \in FetchOutcomes(usrc, updates[Len(updates)].workDir) :
          /\ fetched' = r
          /\ fetches' = Append(fetches, [call |-> Len(updates), path |-> r.path,
                                         err |-> r.err])
          /\ IF r.err = errSourceNotModified THEN UpdateReturn(Nil)
             ELSE IF r.err # Nil THEN UpdateReturn(r.err)
             ELSE /\ upc' = "install"
                  /\ UNCHANGED returns
    /\ UNCHANGED <<pc, targetDir, sourceName, cpu, restore, selfUpdate,
                   DownloadTimeout, exe, updates, usrc, installs, errPrimary,
                   errSelf, logs, runErr>>
    /\ UNCHANGED fetchVars

\* netup.Update, step 5: the installer takes the fetched path
UpdateInstall ==
    /\ upc = "install"
    /\ installs' = Append(installs, [call |-> Len(updates), path |-> fetched.path])
    /\ \E e \in {Nil, errInstall} : UpdateReturn(e)
    /\ UNCHANGED <<pc, targetDir, sourceName, cpu, restore, selfUpdate,
                   DownloadTimeout, exe, updates, usrc, fetched, fetches,
                   errPrimary, errSelf, logs, runErr>>
    /\ UNCHANGED fetchVars

\* run that goes on to the self-update whatever the primary call returned
PrimaryReturn_IgnoreErr ==
    /\ pc = "primary"
    /\ upc = "returned"
    /\ errPrimary' = returns[Len(returns)].err
    /\ upc' = "idle"
    /\ pc' = "selfupdate"
    /\ UNCHANGED <<targetDir, sourceName, cpu, restore, selfUpdate, DownloadTimeout,
                   exe, updates, usrc, fetched, fetches, installs, returns, errSelf,
                   logs, runErr>>
    /\ UNCHANGED fetchVars

\* run after the primary netup.Update returned: if err != nil { return err }
PrimaryReturn ==
    /\ pc = "primary"
    /\ upc = "returned"
    /\ errPrimary' = returns[Len(returns)].err
    /\ upc' = "idle"
    /\ IF returns[Len(returns)].err # Nil
       THEN RunReturn(returns[Len(returns)].err)
       ELSE /\ pc' = "selfupdate"
            /\ UNCHANGED runErr
    /\ UNCHANGED <<targetDir, sourceName, cpu, restore, selfUpdate, DownloadTimeout,
                   exe, updates, usrc, fetched, fetches, installs, returns, errSelf,
                   logs>>
    /\ UNCHANGED fetchVars

\* shouldSelfUpdate by the flag alone
shouldSelfUpdate_FlagOnly == selfUpdate

shouldSelfUpdate ==
    IF ~selfUpdate THEN FALSE
    ELSE Join(targetDir, "netupvim.exe") \in exe

\* run that hands the configured architecture to the second netup.Update
TryUpdateNetupvim_ConfiguredArch ==
    /\ pc = "selfupdate"
    /\ IF shouldSelfUpdate
       THEN /\ logs' = Append(logs, <<"trying to update netupvim">>)
            /\ Update(netupPack, [Name |-> cpu, Hint |-> ""])
            /\ pc' = "second"
            /\ UNCHANGED runErr
       ELSE /\ RunReturn(Nil)
            /\ UNCHANGED <<logs, updates, upc>>
    /\ UNCHANGED <<targetDir, sourceName, cpu, restore, selfUpdate, DownloadTimeout,
                   exe, usrc, fetched, fetches, installs, returns, errPrimary,
                   errSelf>>
    /\ UNCHANGED fetchVars

\* run: if shouldSelfUpdate() { LogInfo; netup.Update(... netupPack ...) }
TryUpdateNetupvim ==
    /\ pc = "selfupdate"
    /\ IF shouldSelfUpdate
       THEN /\ logs' = Append(logs, <<"trying to update netupvim">>)
            /\ Update(netupPack, [Name |-> "X86", Hint |-> ""])
            /\ pc' = "second"
            /\ UNCHANGED runErr
       ELSE /\ RunReturn(Nil)
            /\ UNCHANGED <<logs, updates, upc>>
    /\ UNCHANGED <<targetDir, sourceName, cpu, restore, selfUpdate, DownloadTimeout,
                   exe, usrc, fetched, fetches, installs, returns, errPrimary,
                   errSelf>>
    /\ UNCHANGED fetchVars

\* run that returns the second call's error
SecondReturn_Propagate ==
    /\ pc = "second"
    /\ upc = "returned"
    /\ errSelf' = returns[Len(returns)].err
    /\ upc' = "idle"
    /\ RunReturn(returns[Len(returns)].err)
    /\ UNCHANGED <<targetDir, sourceName, cpu, restore, selfUpdate, DownloadTimeout,
                   exe, updates, usrc, fetched, fetches, installs, returns,
                   errPrimary, logs>>
    /\ UNCHANGED fetchVars

\* run after the second netup.Update returned: log the error, return nil
SecondReturn ==
    /\ pc = "second"
    /\ upc = "returned"
    /\ errSelf' = returns[Len(returns)].err
    /\ upc' = "idle"
    /\ logs' = IF returns[Len(returns)].err # Nil
               THEN Append(logs, <<"failed to udate netupvim: ">>
                                     \o returns[Len(returns)].err)
               ELSE logs
    /\ RunReturn(Nil)
    /\ UNCHANGED <<targetDir, sourceName, cpu, restore, selfUpdate, DownloadTimeout,
                   exe, updates, usrc, fetched, fetches, installs, returns,
                   errPrimary>>
    /\ UNCHANGED fetchVars

\* Someone puts a netupvim.exe into a directory, or takes it away, while run
\* is under way.
FileSystemChange ==
    /\ pc \notin {"done", "exit"}
    /\ \E p \in {Join(d, "netupvim.exe") : d \in TargetDirs} :
          exe' = IF p \in exe THEN exe \ {p} ELSE exe \cup {p}
    /\ UNCHANGED <<pc, targetDir, sourceName, cpu, restore, selfUpdate,
                   DownloadTimeout, updates, upc, usrc, fetched, fetches, installs,
                   returns, errPrimary, errSelf, logs, runErr>>
    /\ UNCHANGED fetchVars

NextRun ==
    \/ Setup
    \/ UpdateVim
    \/ UpdateResolve
    \/ UpdateFetch
    \/ UpdateInstall
    \/ PrimaryReturn
    \/ TryUpdateNetupvim
    \/ SecondReturn
    \/ FileSystemChange

SpecRun == InitRun /\ [][NextRun]_vars

\* ------------------------------------------------------------ properties

\* The positions of the assets of r whose names match pat.
Matching(pat, r) == {i \in 1..Len(r.Assets) : MatchString(pat, r.Assets[i].Name)}

\* C1: when the latest release is a draft or a pre-release, the fetch has
\* failed with errGithubNoRelease and no request for an asset was ever sent,
\* whatever the assets and the pivot.
C1_IneligibleReleaseNoTransfer ==
    (src.kind = "github" /\ (release.Draft \/ release.PreRelease)) =>
        /\ fpc = "done"
        /\ ret = [path |-> <<>>, err |-> errGithubNoRelease]
        /\ asset = NoAsset
        /\ gets = <<>>

C1_Witness ==
    /\ fpc = "done"
    /\ src.kind = "github"
    /\ ~release.Draft /\ release.PreRelease
    /\ pivot = 0
    /\ \E i \in 1..Len(release.Assets) :
          /\ MatchString(src.namePat, release.Assets[i].Name)
          /\ release.Assets[i].State = "uploaded"
    /\ ret.err = errGithubNoRelease

\* C2: for an eligible release the asset taken is the first listed one whose
\* name matches the source's pattern, and any request sent is for that asset's
\* URL; when no name matches the fetch has failed with errGithubNoAssets and
\* no request was sent.
C2_FirstMatchingAsset ==
    /\ fpc = "asset" =>
          \E i \in Matching(src.namePat, release) :
              /\ \A j \in Matching(src.namePat, release) : i <= j
              /\ asset = release.Assets[i]
    /\ (src.kind = "github" /\ gets # <<>>) =>
          /\ Len(gets) = 1
          /\ asset # NoAsset
          /\ gets[1].url = asset.DownloadURL
    /\ (src.kind = "github" /\ fpc \in {"asset", "done"}
          /\ ret.err # errAPI
          /\ asset = NoAsset
          /\ ~release.Draft /\ ~release.PreRelease
          /\ Matching(src.namePat, release) = {}) =>
          /\ fpc = "done"
          /\ ret = [path |-> <<>>, err |-> errGithubNoAssets]
          /\ gets = <<>>

C2_Witness ==
    /\ fpc = "asset"
    /\ Len(release.Assets) = 2
    /\ Matching(src.namePat, release) = {1, 2}
    /\ release.Assets[2].State = "uploaded"
    /\ release.Assets[1].UpdatedAt # release.Assets[2].UpdatedAt
    /\ asset = release.Assets[1]

\* C3: with a non-zero pivot strictly after the selected asset's updatedAt the
\* fetch fails with errSourceNotModified and no request was sent.
C3_PivotAfterAssetNotModified ==
    (asset # NoAsset /\ ~(pivot = 0) /\ pivot > asset.UpdatedAt) =>
        /\ gets = <<>>
        /\ resp = NoResponse
        /\ fpc \in {"asset", "done"}
        /\ fpc = "done" => ret = [path |-> <<>>, err |-> errSourceNotModified]

C3_Witness ==
    /\ fpc = "done"
    /\ asset # NoAsset
    /\ asset.DownloadURL = AssetURL(2, asset.Name)
    /\ pivot = asset.UpdatedAt + 1
    /\ ret.err = errSourceNotModified
    /\ gets = <<>>

\* C4: once a request was sent, the fetch returns a non-empty path exactly when
\* the server answered 200 and the body was saved without error; 304 gives
\* errSourceNotModified, any other status an unexpected-response error, and
\* every error comes with the empty path.
C4_DownloadOutcome ==
    fpc = "done" =>
        /\ ret.err # Nil => ret.path = <<>>
        /\ gets # <<>> =>
              /\ (ret.path # <<>>) <=>
                    (/\ resp.err = Nil
                     /\ resp.StatusCode = 200
                     /\ files[outPath] # Absent
                     /\ ret.err \notin {errCreate, errRead, errWrite})
              /\ ret.path # <<>> => (ret.path = outPath /\ ret.err = Nil)
              /\ (resp.err = Nil /\ resp.StatusCode = 304) =>
                    ret.err = errSourceNotModified
              /\ (resp.err = Nil /\ resp.StatusCode \notin {200, 304}) =>
                    ret.err = <<"unexpected response: ", resp.Status>>
              /\ resp.err # Nil => ret.err = resp.err

C4_Witness ==
    /\ fpc = "done"
    /\ src.kind = "direct"
    /\ resp.StatusCode = 200
    /\ ret.path = outPath
    /\ ret.err = Nil
    /\ files[outPath] = MaxBody

\* C5: determineSource gives a source for each of the six pairs
\* {release, develop, canary} x {X86, AMD64} and errSourceNotFound for any
\* other pair; it never gives no source together with no error.
C5_RegistryLookup ==
    fpc # "resolve" =>
        IF st \in {0, 1, 2} /\ cpuArg \in {"X86", "AMD64"}
        THEN /\ src.kind \in {"direct", "github"}
             /\ ret.err # errSourceNotFound
        ELSE /\ src = NoSource
             /\ fpc = "done"
             /\ ret = [path |-> <<>>, err |-> errSourceNotFound]

C5_Witness ==
    /\ fpc = "done"
    /\ st = releaseSource
    /\ cpuArg \notin {X86, AMD64}
    /\ ret.err = errSourceNotFound

\* C6: the second netup.Update call is made only from a state where
\* selfUpdate is set and netupvim.exe exists in targetDir; when either fails at
\* the check, run ends without a second call.
C6_SelfUpdateGate ==
    [][/\ Len(updates') > Len(updates) /\ Len(updates) >= 1 =>
            /\ selfUpdate
            /\ Join(targetDir, "netupvim.exe") \in exe
            /\ Len(updates') = 2
            /\ updates'[2].pack = netupPack
       /\ (pc = "selfupdate" /\ pc' # "selfupdate"
            /\ ~(selfUpdate /\ Join(targetDir, "netupvim.exe") \in exe)) =>
            /\ updates' = updates
            /\ pc' = "done"]_vars

C6_Witness ==
    /\ pc = "second"
    /\ upc = "resolve"
    /\ Len(updates) = 2
    /\ selfUpdate
    /\ targetDir = <<"vim">>
    /\ exe = {<<"vim", "netupvim.exe">>}

\* C7: when the primary netup.Update returned an error, run ends with that
\* error: no self-update check, no second call, nothing logged.
C7_PrimaryFailureShortCircuits ==
    (Len(returns) >= 1 /\ returns[1].err # Nil) =>
        /\ pc \in {"primary", "done"}
        /\ Len(updates) = 1
        /\ Len(returns) = 1
        /\ logs = <<>>
        /\ pc = "done" => runErr = returns[1].err

C7_Witness ==
    /\ pc = "done"
    /\ Len(returns) = 1
    /\ returns[1].err = errGithubNoRelease
    /\ runErr = errGithubNoRelease
    /\ selfUpdate
    /\ Join(targetDir, "netupvim.exe") \in exe

\* C8: once the primary netup.Update returned nil, run returns nil whatever
\* the second call returned, and an error of the second call is logged.
C8_SelfUpdateFailureNotFatal ==
    (Len(returns) >= 1 /\ returns[1].err = Nil) =>
        /\ runErr = Nil
        /\ (pc = "done" /\ Len(returns) = 2 /\ returns[2].err # Nil) =>
              /\ Len(logs) = 2
              /\ logs[2] = <<"failed to udate netupvim: ">> \o returns[2].err
        /\ (pc = "done" /\ Len(updates) = 2) => Len(returns) = 2

C8_Witness ==
    /\ pc = "done"
    /\ Len(returns) = 2
    /\ returns[1].err = Nil
    /\ returns[2].err = errTransport
    /\ runErr = Nil

\* C9: a fetch that signalled errSourceNotModified makes its netup.Update
\* return nil without an installer call, and the installer is only ever called
\* with the path a successful fetch of the same call returned.
C9_NotModifiedIsNoOp ==
    /\ \A i \in 1..Len(installs) :
          \E j \in 1..Len(fetches) :
              /\ fetches[j].call = installs[i].call
              /\ fetches[j].err = Nil
              /\ fetches[j].path # <<>>
              /\ fetches[j].path = installs[i].path
    /\ \A j \in 1..Len(fetches) :
          fetches[j].err = errSourceNotModified =>
              /\ \A i \in 1..Len(installs) : installs[i].call # fetches[j].call
              /\ \E k \in 1..Len(returns) :
                    /\ returns[k].call = fetches[j].call
                    /\ returns[k].err = Nil
    /\ (pc = "done" /\ Len(fetches) >= 1 /\ fetches[1].err = errSourceNotModified)
          => runErr = Nil

C9_Witness ==
    /\ pc = "done"
    /\ Len(fetches) = 2
    /\ Len(returns) = 2
    /\ fetches[1].err = errSourceNotModified
    /\ fetches[2].err = Nil
    /\ Len(installs) = 1
    /\ installs[1].call = 2
    /\ runErr = Nil

\* C10: every fetch comes to an end: it returns a path or an error.
C10_EveryTransferTerminates == <>(fpc = "done")

\* C11: within one download the byte counts handed to the progress callback
\* never decrease, and the count of the last invocation is the number of
\* bytes written to the destination file.
C11_ProgressMonotoneAndFinal ==
    /\ \A i \in 1..Len(progress) : \A j \in i..Len(progress) :
          progress[i][1] <= progress[j][1]
    /\ Len(progress) >= 1 => progress[Len(progress)][1] = files[outPath]
    /\ ~pf => progress = <<>>

C11_Witness ==
    /\ fpc = "done"
    /\ ret.err = errWrite
    /\ Len(progress) = 2
    /\ progress[1][1] = 1
    /\ progress[2][1] = 1
    /\ files[outPath] = 1

\* C12: when the first asset whose name matches is not in the state "uploaded",
\* the fetch fails with errGithubIncompleteAsset and sends no GET, also when
\* a later asset of the release matches and is uploaded.
C12_IncompleteFirstMatchFails ==
    (/\ src # NoSource
     /\ src.kind = "github"
     /\ release # NoRelease
     /\ ~release.Draft
     /\ ~release.PreRelease
     /\ Matching(src.namePat, release) # {}
     /\ \E i \in Matching(src.namePat, release) :
           /\ \A k \in Matching(src.namePat, release) : i <= k
           /\ release.Assets[i].State # "uploaded")
    => /\ fpc = "done"
       /\ ret = [path |-> <<>>, err |-> errGithubIncompleteAsset]
       /\ asset = NoAsset
       /\ gets = <<>>
       /\ resp = NoResponse
       /\ \A p \in DestPaths : files[p] \in {Absent, OldLen}

C12_Witness ==
    /\ fpc = "done"
    /\ src # NoSource
    /\ src.kind = "github"
    /\ release # NoRelease
    /\ Len(release.Assets) = 2
    /\ Matching(src.namePat, release) = {1, 2}
    /\ release.Assets[1].State = "new"
    /\ release.Assets[2].State = "uploaded"
    /\ ret.err = errGithubIncompleteAsset
    /\ gets = <<>>

\* C14: run makes at most two netup.Update calls, the primary one first and
\* the self-update one second; the second call starts only after the first
\* has returned, and at no time are two calls under way.
C14_SequentialUpdates ==
    /\ Len(updates) <= 2
    /\ Len(returns) <= Len(updates)
    /\ Len(updates) <= Len(returns) + 1
    /\ \A k \in 1..Len(returns) : returns[k].call = k
    /\ upc \in {"resolve", "fetch", "install"} <=> Len(updates) = Len(returns) + 1
    /\ Len(updates) >= 1 =>
          /\ updates[1].pack.name = "vim"
          /\ updates[1].arch.Hint = "vim.exe"
    /\ Len(updates) = 2 =>
          /\ updates[2].pack.name = "netupvim"
          /\ Len(returns) >= 1
          /\ returns[1].call = 1

C14_Witness ==
    /\ pc = "second"
    /\ upc = "fetch"
    /\ Len(updates) = 2
    /\ Len(returns) = 1
    /\ returns[1].err = Nil

\* C19: when the configured source name is not a key of vimSet, run returns
\* the error "invalid source: <name>" without having called netup.Update,
\* and the self-update step does not run.
C19_InvalidSourceName ==
    (pc \notin {"setup", "update"} /\ sourceName \notin DOMAIN vimSet)
    => /\ pc = "done"
       /\ runErr = <<"invalid source: ", sourceName>>
       /\ updates = <<>>
       /\ returns = <<>>
       /\ upc = "idle"
       /\ logs = <<>>

C19_Witness ==
    /\ pc = "done"
    /\ sourceName = "nightly"
    /\ selfUpdate
    /\ Join(targetDir, "netupvim.exe") \in exe
    /\ runErr = <<"invalid source: ", "nightly">>
    /\ updates = <<>>

\* C20: the second netup.Update call is for netupPack with the architecture
\* X86, whatever architecture is configured, and it gets the target
\* directory, the working directory and the restore flag of the first call.
C20_SelfUpdateCallArguments ==
    Len(updates) = 2 =>
        /\ updates[2].pack = netupPack
        /\ updates[2].arch.Name = "X86"
        /\ updates[2].targetDir = updates[1].targetDir
        /\ updates[2].workDir = updates[1].workDir
        /\ updates[2].restore = updates[1].restore
        /\ updates[2].targetDir = targetDir
        /\ updates[2].restore = restore

C20_Witness ==
    /\ Len(updates) = 2
    /\ cpu = "AMD64"
    /\ updates[1].arch.Name = "AMD64"
    /\ updates[2].arch.Name = "X86"
    /\ updates[2].restore
    /\ updates[2].targetDir = <<"vim">>

\* C15: the destination file is touched only on a 200.  When the request
\* fails, or the status is 304 or anything else than 200, no step creates,
\* truncates or writes a file, so a file that was there stays as it was; on
\* a 200 the file is created or truncated to length zero before the first
\* chunk of the body is written, and no other file is touched.
C15_FileTouchedOnlyOnOK ==
    /\ [][(files' # files =>
              /\ resp.err = Nil
              /\ resp.StatusCode = StatusOK
              /\ \A p \in DestPaths \ {outPath} : files'[p] = files[p])
          /\ ((fpc = "response" /\ fpc' = "copy") =>
              /\ files'[outPath] = 0
              /\ pw'.n = 0
              /\ progress' = <<>>)]_vars
    /\ [](fpc = "copy" => files[outPath] = pw.n)
    /\ []((resp # NoResponse /\ (resp.err # Nil \/ resp.StatusCode # StatusOK))
            => \A p \in DestPaths : files[p] \in {Absent, OldLen})

C15_Witness ==
    /\ fpc = "done"
    /\ resp.err = Nil
    /\ resp.StatusCode = StatusNotModified
    /\ ret.err = errSourceNotModified
    /\ files[outPath] = OldLen

\* C16: when the transfer fails after the copy of the body has begun, by an
\* error of a read of the body or of a write to the file, the download
\* returns that error with an empty path, and the file stays where it is
\* with the bytes written so far.
C16_MidStreamFailure ==
    (fpc = "done" /\ ret.err \in {errRead, errWrite})
    => /\ ret.path = <<>>
       /\ resp.err = Nil
       /\ resp.StatusCode = StatusOK
       /\ files[outPath] # Absent
       /\ files[outPath] = pw.n

C16_Witness ==
    /\ fpc = "done"
    /\ ret = [path |-> <<>>, err |-> errRead]
    /\ resp.ContentLength = 2
    /\ files[outPath] = 1

\* C17, with the header taken to name the pivot itself: every GET carries
\* If-Modified-Since exactly when the pivot is not the zero time, and the
\* instant the header names is the pivot itself, in GMT; a direct source sends exactly one GET, to its
\* own URL, for every pivot.
C17_HeaderIsPivot ==
    /\ \A i \in 1..Len(gets) :
          /\ gets[i].method = "GET"
          /\ gets[i].ifModifiedSince # NoHeader <=> ~IsZero(pivot)
          /\ ~IsZero(pivot) =>
                /\ gets[i].ifModifiedSince.gmt
                /\ gets[i].ifModifiedSince.sec * TicksPerSecond = pivot
    /\ (src.kind = "direct" /\ fpc \notin {"resolve", "download"}) =>
          /\ Len(gets) = 1
          /\ gets[1].url = src.url

\* C17: every GET carries If-Modified-Since exactly when the pivot is not
\* the zero time; the header names, in GMT, the whole second the pivot lies
\* in (the pivot cut to whole seconds).  A direct source sends exactly one
\* GET, to its own URL, for every pivot, and what it returns is what the
\* downloader makes of the answer to that GET.
C17_ConditionalHeader ==
    /\ \A i \in 1..Len(gets) :
          /\ gets[i].method = "GET"
          /\ gets[i].ifModifiedSince # NoHeader <=> ~IsZero(pivot)
          /\ ~IsZero(pivot) =>
                /\ gets[i].ifModifiedSince.gmt
                /\ gets[i].ifModifiedSince.sec * TicksPerSecond <= pivot
                /\ pivot < (gets[i].ifModifiedSince.sec + 1) * TicksPerSecond
    /\ (src.kind = "direct" /\ fpc \notin {"resolve", "download"}) =>
          /\ Len(gets) = 1
          /\ gets[1].url = src.url
          /\ src.url \in DirectURLs
    /\ (src.kind = "direct" /\ fpc = "done") =>
          /\ resp # NoResponse
          /\ resp.err # Nil => ret = [path |-> <<>>, err |-> resp.err]
          /\ (resp.err = Nil /\ resp.StatusCode = StatusNotModified) =>
                ret = [path |-> <<>>, err |-> errSourceNotModified]
          /\ (resp.err = Nil /\ resp.StatusCode \notin {StatusOK, StatusNotModified}) =>
                ret = [path |-> <<>>, err |-> errUnexpected(resp.Status)]
          /\ (resp.err = Nil /\ resp.StatusCode = StatusOK) =>
                \/ ret = [path |-> Join(OutDir, Base(src.url.path)), err |-> Nil]
                \/ ret.path = <<>> /\ ret.err \in {errCreate, errRead, errWrite}

C17_Witness ==
    /\ fpc = "done"
    /\ src.kind = "direct"
    /\ pivot % TicksPerSecond # 0
    /\ Len(gets) = 1
    /\ gets[1].ifModifiedSince = [gmt |-> TRUE, sec |-> pivot \div TicksPerSecond]
    /\ gets[1].url = src.url
    /\ ret.err = errSourceNotModified

\* C18: when an asset was selected (the release is eligible and the asset is
\* uploaded) and the pivot is the zero time or is not after the asset's
\* UpdatedAt, equal included, the fetch sends one GET to the asset's download
\* URL with the header of that same pivot, and returns what the downloader
\* makes of the answer: a 304 gives errSourceNotModified.
C18_HostedFallThrough ==
    (/\ asset # NoAsset
     /\ IsZero(pivot) \/ pivot <= asset.UpdatedAt
     /\ fpc # "asset")
    => /\ asset.State = "uploaded"
       /\ Len(gets) = 1
       /\ gets[1].method = "GET"
       /\ gets[1].url = asset.DownloadURL
       /\ gets[1].ifModifiedSince =
             IF pivot = 0 THEN NoHeader
             ELSE [gmt |-> TRUE, sec |-> pivot \div TicksPerSecond]
       /\ fpc = "done" =>
             /\ resp # NoResponse
             /\ resp.err # Nil => ret = [path |-> <<>>, err |-> resp.err]
             /\ (resp.err = Nil /\ resp.StatusCode = StatusNotModified) =>
                   ret = [path |-> <<>>, err |-> errSourceNotModified]
             /\ (resp.err = Nil
                   /\ resp.StatusCode \notin {StatusOK, StatusNotModified}) =>
                   ret = [path |-> <<>>, err |-> errUnexpected(resp.Status)]
             /\ (resp.err = Nil /\ resp.StatusCode = StatusOK) =>
                   \/ ret = [path |-> Join(OutDir, Base(asset.DownloadURL.path)),
                             err |-> Nil]
                   \/ ret.path = <<>> /\ ret.err \in {errCreate, errRead, errWrite}

C18_Witness ==
    /\ fpc = "done"
    /\ asset # NoAsset
    /\ pivot = asset.UpdatedAt
    /\ Len(gets) = 1
    /\ gets[1].url = asset.DownloadURL
    /\ resp.err = Nil
    /\ resp.StatusCode = StatusNotModified
    /\ ret = [path |-> <<>>, err |-> errSourceNotModified]

\* C13: fetches write to nothing they share and can be repeated.  The table
\* of sources, and with it every source's fields, is at all times what it
\* was at the start; a second fetch of the same source with the same pivot,
\* answered by the API, the server and the file system as the first one
\* was, asks for the same answers in the same order and
\* returns what the first one returned.
C13_FetchesIndependent ==
    /\ registry = sources
    /\ src # NoSource => src = sources[st][cpuArg]
    /\ round = 2 =>
          LET needs ==
                CASE fpc = "download" /\ src.kind = "github" -> "api"
                  [] fpc = "await" -> "resp"
                  [] fpc = "response" /\ resp.err = Nil
                        /\ resp.StatusCode = StatusOK -> "create"
                  [] fpc = "copy" /\ rx = NoRead -> "read"
                  [] fpc = "copy" /\ rx # NoRead /\ rx.kind = "data" -> "write"
                  [] OTHER -> ""
          IN  /\ needs # "" => (tpos <= Len(tape) /\ tape[tpos].kind = needs)
              /\ fpc = "done" => (ret = ret1 /\ tpos = Len(tape) + 1)

C13_Witness ==
    /\ round = 2
    /\ fpc = "done"
    /\ src.kind = "github"
    /\ Len(tape) >= 5
    /\ ret.err = Nil
    /\ ret = ret1
    /\ files[outPath] = 2

====
